---- MODULE Spec2Model ----
(***************************************************************************)
(* A model of PrizePicksAnalyzer (src/analyzer.py): the per-player game    *)
(* log, the opponent index, and the queries suggest_line,                  *)
(* suggest_line_with_matchup, get_opponent_stats and analyze_trend.        *)
(*                                                                         *)
(* Conventions.                                                            *)
(*  - A Python dict is a TLA+ function whose DOMAIN is the dict's key set. *)
(*  - A Python value that may be None, a number, a string or a dict is a   *)
(*    tagged record: [kind |-> "None"], [kind |-> "num", n, d] (the        *)
(*    rational n/d, d > 0), [kind |-> "str", text], [kind |-> "dict", ...].*)
(*  - The outcome of a call is the returned value, or                      *)
(*    [kind |-> "raise", exc |-> <exception class>] when the call ends in  *)
(*    an exception that leaves the method.                                 *)
(*  - Metric values are integers; every mean is kept as an exact rational  *)
(*    and every comparison of the code is decided on the exact value.      *)
(*  - Dates are integers ordered as the dates they stand for.              *)
(***************************************************************************)
EXTENDS Integers, Sequences, FiniteSets, TLC

VARIABLES player_stats, opponent_stats, last

vars == <<player_stats, opponent_stats, last>>

(* The analyzer object as the methods see it. *)
self == [player_stats |-> player_stats, opponent_stats |-> opponent_stats]

---------------------------------------------------------------------------
(* Bounds of the model and the input universes. *)

MaxGames == 5
SeedLen == 8
MaxAdds == 3

Players == {"p1", "p2"}
(* The queries ask about p1; games are added for p1 and p2, so p1 is also *)
(* queried while unknown to the analyzer.                                 *)
QueryPlayers == {"p1"}
Metrics == {"points"}
Opponents == {"A", "B"}
ConfLevels == {80}

(* The opponent argument of a query: None or a team. *)
OpponentArgs == {[kind |-> "None"], [kind |-> "str", text |-> "A"]}

(* The games add_game_data is called with under Spec: <<date, stats>>.    *)
(* Some carry no opponent, some lack the metric, two share a date, and    *)
(* the dates are not in insertion order.                                  *)
Games ==
  { <<2, [points |-> 20, opponent |-> "A"]>>,
    <<2, [opponent |-> "A"]>>,
    <<3, [points |-> 30, opponent |-> "B"]>>,
    <<1, [points |-> 10]>> }
Lines == {0, 25}

(* SpecTrend: player p1 starts with a game log of SeedLen games dated     *)
(* 1..SeedLen that all carry the same stats, and at most MaxAdds further  *)
(* games are added: newer than the log (date SeedLen + 1) or older        *)
(* (date 0).                                                              *)
TrendPlayers == {"p1"}
SeedStats ==
  { [points |-> 20, opponent |-> "A"],
    [points |-> 20],
    [points |-> 0, opponent |-> "A"] }
TrendGames ==
  { <<SeedLen + 1, [points |-> 30, opponent |-> "A"]>>,
    <<SeedLen + 1, [points |-> 10, opponent |-> "A"]>>,
    <<SeedLen + 1, [points |-> 20, opponent |-> "B"]>>,
    <<SeedLen + 1, [opponent |-> "A"]>>,
    <<0, [points |-> 30]>> }
TrendLines == {0, 10, 20, 30}
TrendOpponentArgs ==
  {[kind |-> "None"], [kind |-> "str", text |-> "A"], [kind |-> "str", text |-> "B"]}

---------------------------------------------------------------------------
(* Python values. *)

NoneVal == [kind |-> "None"]
Num(n, d) == [kind |-> "num", n |-> n, d |-> d]
Str(t) == [kind |-> "str", text |-> t]
Raise(e) == [kind |-> "raise", exc |-> e]

(* Python truthiness of a value: None, 0 and 0.0 are falsy; a non-empty   *)
(* dict or string is truthy.                                              *)
Truthy(v) ==
  CASE v.kind = "None" -> FALSE
    [] v.kind = "num" -> v.n # 0
    [] v.kind = "str" -> v.text # ""
    [] OTHER -> TRUE

(* Exact rational arithmetic on Num values. *)
RatSub(a, b) == Num(a.n * b.d - b.n * a.d, a.d * b.d)
RatAdd(a, b) == Num(a.n * b.d + b.n * a.d, a.d * b.d)
(* a * p/q, q > 0 *)
RatScale(a, p, q) == Num(a.n * p, a.d * q)

(* n/d rounded to the nearest integer, ties to the even one (d > 0). *)
RoundHalfEven(n, d) ==
  LET q == n \div d
      r == n - q * d
  IN  IF 2 * r < d THEN q
      ELSE IF 2 * r > d THEN q + 1
      ELSE IF q % 2 = 0 THEN q ELSE q + 1

(* round(x, 1) and round(x, 2): the value in tenths, in hundredths. *)
round1(x) == Num(RoundHalfEven(x.n * 10, x.d), 10)
round2(x) == Num(RoundHalfEven(x.n * 100, x.d), 100)

Sgn(x) == IF x > 0 THEN 1 ELSE IF x < 0 THEN -1 ELSE 0

Abs(x) == IF x < 0 THEN -x ELSE x
MinOf(a, b) == IF a < b THEN a ELSE b

RECURSIVE SumSeq(_)
SumSeq(s) == IF s = <<>> THEN 0 ELSE Head(s) + SumSeq(Tail(s))

RECURSIVE SumSq(_)
SumSq(s) == IF s = <<>> THEN 0 ELSE Head(s) * Head(s) + SumSq(Tail(s))

SeqMax(s) == CHOOSE x \in {s[i] : i \in 1..Len(s)} : \A j \in 1..Len(s) : s[j] <= x
SeqMin(s) == CHOOSE x \in {s[i] : i \in 1..Len(s)} : \A j \in 1..Len(s) : x <= s[j]

(* s[:n] *)
Take(s, n) == SubSeq(s, 1, MinOf(n, Len(s)))
(* s[1:] *)
Rest(s) == SubSeq(s, 2, Len(s))

(* np.mean of a non-empty list of integers, exact. *)
np_mean(values) == Num(SumSeq(values), Len(values))

(* np.std (population, divisor n) is sqrt(var); var is kept: n/d with     *)
(* n = len * sum(x^2) - sum(x)^2 and d = len^2.                           *)
np_var(values) ==
  Num(Len(values) * SumSq(values) - SumSeq(values) * SumSeq(values),
      Len(values) * Len(values))

---------------------------------------------------------------------------
(* sorted(games, key=lambda x: x['date'], reverse=True): a stable sort,   *)
(* descending by date; records of equal date keep their list order.       *)

(* A variant of InsertDesc that puts g before the records of its date. *)
RECURSIVE InsertDesc_TiesReversed(_, _)
InsertDesc_TiesReversed(g, s) ==
  IF s = <<>> THEN <<g>>
  ELSE IF Head(s)["date"] > g["date"]
       THEN <<Head(s)>> \o InsertDesc_TiesReversed(g, Tail(s))
       ELSE <<g>> \o s

RECURSIVE InsertDesc(_, _)
InsertDesc(g, s) ==
  IF s = <<>> THEN <<g>>
  ELSE IF Head(s)["date"] >= g["date"]
       THEN <<Head(s)>> \o InsertDesc(g, Tail(s))
       ELSE <<g>> \o s

RECURSIVE sorted_by_date_desc(_)
sorted_by_date_desc(s) ==
  IF s = <<>> THEN <<>>
  ELSE InsertDesc(s[Len(s)], sorted_by_date_desc(SubSeq(s, 1, Len(s) - 1)))

(* [game[metric] for game in games]: KeyError when a game lacks the key.  *)
AllHave(games, metric) == \A i \in 1..Len(games) : metric \in DOMAIN games[i]
ValuesOf(games, metric) == [i \in 1..Len(games) |-> games[i][metric]]

---------------------------------------------------------------------------
(* __init__ *)

EmptyDict == <<>>

init_self == [player_stats |-> EmptyDict, opponent_stats |-> EmptyDict]

(* game_data = {'date': date, **stats} *)
game_data(date, stats) ==
  [k \in {"date"} \cup DOMAIN stats |->
     IF k \in DOMAIN stats THEN stats[k] ELSE date]

(* A variant of AppendAt that puts the new element first. *)
AppendAt_Front(d, k, x) ==
  IF k \in DOMAIN d
  THEN [d EXCEPT ![k] = <<x>> \o @]
  ELSE d @@ (k :> <<x>>)

(* d[k].append(x) on a dict that creates the empty list on a missing key. *)
AppendAt(d, k, x) ==
  IF k \in DOMAIN d
  THEN [d EXCEPT ![k] = Append(@, x)]
  ELSE d @@ (k :> <<x>>)

(* A variant of add_game_data that assigns the opponent bucket instead of *)
(* appending to it: opponent_stats[player_name][opponent] = [game_data].  *)
add_game_data_AssignsBucket(slf, player_name, date, stats) ==
  LET gd == game_data(date, stats)
      ps == AppendAt(slf.player_stats, player_name, gd)
      os == IF "opponent" \in DOMAIN stats
            THEN LET inner == IF player_name \in DOMAIN slf.opponent_stats
                              THEN slf.opponent_stats[player_name]
                              ELSE EmptyDict
                 IN  (player_name :> ((stats["opponent"] :> <<gd>>) @@ inner))
                       @@ slf.opponent_stats
            ELSE slf.opponent_stats
  IN  [player_stats |-> ps, opponent_stats |-> os]

(* add_game_data: the analyzer after the call. *)
add_game_data(slf, player_name, date, stats) ==
  LET gd == game_data(date, stats)
      ps == AppendAt(slf.player_stats, player_name, gd)
      os == IF "opponent" \in DOMAIN stats
            THEN LET opponent == stats["opponent"]
                     inner == IF player_name \in DOMAIN slf.opponent_stats
                              THEN slf.opponent_stats[player_name]
                              ELSE EmptyDict
                 IN  IF player_name \in DOMAIN slf.opponent_stats
                     THEN [slf.opponent_stats EXCEPT
                             ![player_name] = AppendAt(inner, opponent, gd)]
                     ELSE slf.opponent_stats @@
                            (player_name :> AppendAt(inner, opponent, gd))
            ELSE slf.opponent_stats
  IN  [player_stats |-> ps, opponent_stats |-> os]

---------------------------------------------------------------------------
(* A variant of _calculate_opponent_trend that takes the last value of    *)
(* the list, the oldest game, as the recent one.                          *)
_calculate_opponent_trend_OldestAsRecent(values) ==
  IF Len(values) < 2 THEN "INSUFFICIENT_DATA"
  ELSE LET recent == values[Len(values)]
           hs == SumSeq(SubSeq(values, 1, Len(values) - 1))
           hn == Len(values) - 1
       IN  IF 10 * recent * hn > 11 * hs THEN "IMPROVING"
           ELSE IF 10 * recent * hn < 9 * hs THEN "DECLINING"
           ELSE "STABLE"

(* _calculate_opponent_trend(values), values most recent first.           *)
(* recent > historical_avg * 1.1 with historical_avg = hs / hn is         *)
(* 10 * recent * hn > 11 * hs; recent < historical_avg * 0.9 is           *)
(* 10 * recent * hn < 9 * hs.                                             *)
_calculate_opponent_trend(values) ==
  IF Len(values) < 2 THEN "INSUFFICIENT_DATA"
  ELSE LET recent == values[1]
           hs == SumSeq(Rest(values))
           hn == Len(values) - 1
       IN  IF 10 * recent * hn > 11 * hs THEN "IMPROVING"
           ELSE IF 10 * recent * hn < 9 * hs THEN "DECLINING"
           ELSE "STABLE"

(* A variant of get_opponent_stats whose recent_games is games[:5], the   *)
(* first five in insertion order.                                         *)
get_opponent_stats_UnsortedRecent(slf, player_name, opponent, metric) ==
  IF \/ player_name \notin DOMAIN slf.opponent_stats
     \/ opponent \notin DOMAIN slf.opponent_stats[player_name]
  THEN NoneVal
  ELSE
    LET games == slf.opponent_stats[player_name][opponent] IN
    IF games = <<>> \/ metric \notin DOMAIN games[1]
    THEN NoneVal
    ELSE
      LET sorted_games == sorted_by_date_desc(games) IN
      IF ~AllHave(sorted_games, metric)
      THEN Raise("KeyError")
      ELSE
        LET values == ValuesOf(sorted_games, metric) IN
        [kind |-> "dict",
         games_played |-> Len(values),
         average |-> np_mean(values),
         max |-> SeqMax(values),
         min |-> SeqMin(values),
         std_dev |-> IF Len(values) > 1 THEN np_var(values) ELSE Num(0, 1),
         last_matchup |-> sorted_games[1]["date"],
         last_performance |-> sorted_games[1][metric],
         trend |-> _calculate_opponent_trend(values),
         recent_games |-> Take(games, 5)]

(* A variant of get_opponent_stats without the test for an empty list at  *)
(* line 40: games[0] on an empty list is an IndexError.                   *)
get_opponent_stats_NoEmptyTest(slf, player_name, opponent, metric) ==
  IF \/ player_name \notin DOMAIN slf.opponent_stats
     \/ opponent \notin DOMAIN slf.opponent_stats[player_name]
  THEN NoneVal
  ELSE
    LET games == slf.opponent_stats[player_name][opponent] IN
    IF games = <<>> THEN Raise("IndexError")
    ELSE IF metric \notin DOMAIN games[1]
    THEN NoneVal
    ELSE
      LET sorted_games == sorted_by_date_desc(games) IN
      IF ~AllHave(sorted_games, metric)
      THEN Raise("KeyError")
      ELSE
        LET values == ValuesOf(sorted_games, metric) IN
        [kind |-> "dict",
         games_played |-> Len(values),
         average |-> np_mean(values),
         max |-> SeqMax(values),
         min |-> SeqMin(values),
         std_dev |-> IF Len(values) > 1 THEN np_var(values) ELSE Num(0, 1),
         last_matchup |-> sorted_games[1]["date"],
         last_performance |-> sorted_games[1][metric],
         trend |-> _calculate_opponent_trend(values),
         recent_games |-> Take(sorted_games, 5)]

(* get_opponent_stats(player_name, opponent, metric) *)
get_opponent_stats(slf, player_name, opponent, metric) ==
  IF \/ player_name \notin DOMAIN slf.opponent_stats
     \/ opponent \notin DOMAIN slf.opponent_stats[player_name]
  THEN NoneVal
  ELSE
    LET games == slf.opponent_stats[player_name][opponent] IN
    IF games = <<>> \/ metric \notin DOMAIN games[1]
    THEN NoneVal
    ELSE
      LET sorted_games == sorted_by_date_desc(games) IN
      IF ~AllHave(sorted_games, metric)
      THEN Raise("KeyError")
      ELSE
        LET values == ValuesOf(sorted_games, metric) IN
        [kind |-> "dict",
         games_played |-> Len(values),
         average |-> np_mean(values),
         max |-> SeqMax(values),
         min |-> SeqMin(values),
         std_dev |-> IF Len(values) > 1 THEN np_var(values) ELSE Num(0, 1),
         last_matchup |-> sorted_games[1]["date"],
         last_performance |-> sorted_games[1][metric],
         trend |-> _calculate_opponent_trend(values),
         recent_games |-> Take(sorted_games, 5)]

---------------------------------------------------------------------------
(* suggest_line(player_name, metric, confidence_interval).                *)
(* Line 151 binds the local name stats to the player's list of games, so  *)
(* stats.t at line 174 is an attribute lookup on a list: every call that  *)
(* passes the checks of lines 147-167 ends in AttributeError, and lines   *)
(* 176-195 never run.                                                     *)
suggest_line(slf, player_name, metric, confidence_interval) ==
  IF player_name \notin DOMAIN slf.player_stats
  THEN NoneVal
  ELSE
    LET stats == slf.player_stats[player_name] IN
    IF stats = <<>> \/ metric \notin DOMAIN stats[1]
    THEN NoneVal
    ELSE
      LET sorted_stats == sorted_by_date_desc(stats)
          window == Take(sorted_stats, 20)
      IN
      IF ~AllHave(window, metric)
      THEN Raise("KeyError")
      ELSE
        LET recent_values == ValuesOf(window, metric) IN
        IF Len(recent_values) < 5
        THEN NoneVal
        ELSE Raise("AttributeError")

(* suggest_line_with_matchup(player_name, metric, opponent,               *)
(* confidence_interval); opponent is NoneVal or Str(team).                *)
suggest_line_with_matchup(slf, player_name, metric, opponent, confidence_interval) ==
  LET base_suggestion == suggest_line(slf, player_name, metric, confidence_interval) IN
  IF base_suggestion.kind = "raise" THEN base_suggestion
  ELSE IF ~Truthy(base_suggestion) THEN NoneVal
  ELSE IF ~Truthy(opponent) THEN base_suggestion
  ELSE
    LET opp_stats == get_opponent_stats(slf, player_name, opponent.text, metric) IN
    IF opp_stats.kind = "raise" THEN opp_stats
    ELSE IF ~Truthy(opp_stats) \/ opp_stats.games_played < 2 THEN base_suggestion
    ELSE
      LET opponent_avg == opp_stats.average
          general_avg == base_suggestion.mean
          adjustment_factor == RatScale(RatSub(opponent_avg, general_avg), 3, 10)
      IN  ("opponent_factor" :> round1(adjustment_factor)) @@
          ("vs_opponent" :>
             [kind |-> "dict",
              average |-> round1(opponent_avg),
              games_played |-> opp_stats.games_played,
              last_matchup |-> opp_stats.last_matchup,
              last_performance |-> opp_stats.last_performance,
              trend |-> opp_stats.trend]) @@
          [base_suggestion EXCEPT
             !.suggested_line = round1(RatAdd(@, adjustment_factor))]

---------------------------------------------------------------------------
(* suggest_line, lines 170-171, 182-183 and 192: recent_form of the       *)
(* sample recent_values (most recent first). With n values of sum s and   *)
(* sum of squares q, and s5 the sum of the first five:                    *)
(*   form_adjustment = (s5 / 5 - s / n) * 0.2 = (n * s5 - 5 * s) / (25 n) *)
(*   std = sqrt(n * q - s^2) / n                                          *)
(* so form_adjustment > std / 2 is n * s5 - 5 * s > 0 and                 *)
(* 4 * (n * s5 - 5 * s)^2 > 625 * (n * q - s^2), and                      *)
(* form_adjustment < -std / 2 is the same with n * s5 - 5 * s < 0.        *)

(* A variant of recent_form that weighs the recent form by 0.3:           *)
(* form_adjustment = 3 * (n * s5 - 5 * s) / (50 n).                       *)
recent_form_Weight3(recent_values) ==
  LET n == Len(recent_values)
      diff == n * SumSeq(Take(recent_values, 5)) - 5 * SumSeq(recent_values)
      nvar == n * SumSq(recent_values) - SumSeq(recent_values) * SumSeq(recent_values)
      beyond == 36 * diff * diff > 2500 * nvar
  IN  IF diff > 0 /\ beyond THEN "HOT"
      ELSE IF diff < 0 /\ beyond THEN "COLD"
      ELSE "STABLE"

recent_form(recent_values) ==
  LET n == Len(recent_values)
      diff == n * SumSeq(Take(recent_values, 5)) - 5 * SumSeq(recent_values)
      nvar == n * SumSq(recent_values) - SumSeq(recent_values) * SumSeq(recent_values)
      beyond == 4 * diff * diff > 625 * nvar
  IN  IF diff > 0 /\ beyond THEN "HOT"
      ELSE IF diff < 0 /\ beyond THEN "COLD"
      ELSE "STABLE"

---------------------------------------------------------------------------
(* A variant of calculate_averages that does not cut the sorted list to   *)
(* games_back records.                                                    *)
calculate_averages_NoWindow(slf, player_name, metric, games_back) ==
  IF player_name \notin DOMAIN slf.player_stats
  THEN NoneVal
  ELSE
    LET stats == slf.player_stats[player_name] IN
    IF stats = <<>>
    THEN NoneVal
    ELSE
      LET sorted_stats == sorted_by_date_desc(stats)
          recent_stats == sorted_stats
      IN
      IF metric \notin DOMAIN recent_stats[1]
      THEN NoneVal
      ELSE IF ~AllHave(recent_stats, metric)
      THEN Raise("KeyError")
      ELSE
        LET values == ValuesOf(recent_stats, metric) IN
        [kind |-> "dict",
         last_5 |-> IF Len(values) >= 5 THEN np_mean(Take(values, 5)) ELSE NoneVal,
         last_10 |-> IF Len(values) >= 10 THEN np_mean(values) ELSE NoneVal,
         max |-> SeqMax(values),
         min |-> SeqMin(values),
         std_dev |-> np_var(values)]

(* calculate_averages(player_name, metric, games_back=10) *)
calculate_averages(slf, player_name, metric, games_back) ==
  IF player_name \notin DOMAIN slf.player_stats
  THEN NoneVal
  ELSE
    LET stats == slf.player_stats[player_name] IN
    IF stats = <<>>
    THEN NoneVal
    ELSE
      LET sorted_stats == sorted_by_date_desc(stats)
          recent_stats == Take(sorted_stats, games_back)
      IN
      IF metric \notin DOMAIN recent_stats[1]
      THEN NoneVal
      ELSE IF ~AllHave(recent_stats, metric)
      THEN Raise("KeyError")
      ELSE
        LET values == ValuesOf(recent_stats, metric) IN
        [kind |-> "dict",
         last_5 |-> IF Len(values) >= 5 THEN np_mean(Take(values, 5)) ELSE NoneVal,
         last_10 |-> IF Len(values) >= 10 THEN np_mean(values) ELSE NoneVal,
         max |-> SeqMax(values),
         min |-> SeqMin(values),
         std_dev |-> np_var(values)]

(* (last_5_avg - last_10_avg) / std_dev if std_dev != 0 else 0, kept as   *)
(* its sign and its square diff^2 / var (std_dev = sqrt(var)).            *)
TrendStrength(last_5_avg, last_10_avg, var) ==
  LET diff == RatSub(last_5_avg, last_10_avg) IN
  IF var.n # 0
  THEN [sign |-> Sgn(diff.n),
        sq |-> Num(diff.n * diff.n * var.d, diff.d * diff.d * var.n)]
  ELSE [sign |-> 0, sq |-> Num(0, 1)]

(* trend_strength > 0.2, trend_strength < -0.2: |t| > 1/5 is 25 t^2 > 1.  *)
(* A variant of StrengthAbove with threshold 0: trend_strength > 0. *)
StrengthAbove_AnyPositive(ts) == ts.sign = 1

StrengthAbove(ts) == ts.sign = 1 /\ 25 * ts.sq.n > ts.sq.d
StrengthBelow(ts) == ts.sign = -1 /\ 25 * ts.sq.n > ts.sq.d

(* (last_5_avg - line) / line, last_5_avg a numpy float64: a zero line    *)
(* gives inf, -inf or nan (with a RuntimeWarning), not an exception.      *)
AvgVsLine(last_5_avg, line) ==
  LET x == RatSub(last_5_avg, Num(line, 1)) IN
  IF line = 0
  THEN IF x.n > 0 THEN [kind |-> "inf", sign |-> 1]
       ELSE IF x.n < 0 THEN [kind |-> "inf", sign |-> -1]
       ELSE [kind |-> "nan"]
  ELSE IF line > 0 THEN Num(x.n, x.d * line)
  ELSE Num(-x.n, x.d * (-line))

(* A variant of AbsAboveThreshold with abs(avg_vs_line) >= 0.1. *)
AbsAboveThreshold_Inclusive(a) ==
  CASE a.kind = "inf" -> TRUE
    [] a.kind = "nan" -> FALSE
    [] OTHER -> 10 * Abs(a.n) >= a.d

(* abs(avg_vs_line) > 0.1 *)
AbsAboveThreshold(a) ==
  CASE a.kind = "inf" -> TRUE
    [] a.kind = "nan" -> FALSE
    [] OTHER -> 10 * Abs(a.n) > a.d

(* avg_vs_line > 0 *)
IsPositive(a) ==
  CASE a.kind = "inf" -> a.sign = 1
    [] a.kind = "nan" -> FALSE
    [] OTHER -> a.n > 0

(* A variant of ConfidenceModifier whose modifier starts at 0.1 instead   *)
(* of 0 (line 240).                                                       *)
ConfidenceModifier_StartsPositive(opponent_performance) ==
  IF Truthy(opponent_performance)
  THEN IF opponent_performance.trend = "IMPROVING" THEN 1
       ELSE IF opponent_performance.trend = "DECLINING" THEN -1
       ELSE 1
  ELSE 1

(* confidence_modifier (lines 240-245), in tenths. *)
ConfidenceModifier(opponent_performance) ==
  IF Truthy(opponent_performance)
  THEN IF opponent_performance.trend = "IMPROVING" THEN 1
       ELSE IF opponent_performance.trend = "DECLINING" THEN -1
       ELSE 0
  ELSE 0

(* A variant of AdjustConfidence in which a negative modifier also steps  *)
(* MEDIUM down, to LOW.                                                   *)
AdjustConfidence_StepsToLow(confidence_modifier, base_confidence) ==
  IF confidence_modifier > 0 /\ base_confidence = "MEDIUM" THEN "HIGH"
  ELSE IF confidence_modifier < 0 /\ base_confidence = "HIGH" THEN "MEDIUM"
  ELSE IF confidence_modifier < 0 /\ base_confidence = "MEDIUM" THEN "LOW"
  ELSE base_confidence

(* Lines 257-262. *)
AdjustConfidence(confidence_modifier, base_confidence) ==
  IF confidence_modifier > 0 /\ base_confidence = "MEDIUM" THEN "HIGH"
  ELSE IF confidence_modifier < 0 /\ base_confidence = "HIGH" THEN "MEDIUM"
  ELSE base_confidence

(* Lines 247-265: <<recommendation, confidence>>. *)
MakeRecommendation(avg_vs_line, trend_strength, confidence_modifier) ==
  IF AbsAboveThreshold(avg_vs_line)
  THEN IF IsPositive(avg_vs_line)
       THEN <<"OVER",
              AdjustConfidence(confidence_modifier,
                               IF trend_strength.sign > 0 THEN "HIGH" ELSE "MEDIUM")>>
       ELSE <<"UNDER",
              AdjustConfidence(confidence_modifier,
                               IF trend_strength.sign < 0 THEN "HIGH" ELSE "MEDIUM")>>
  ELSE <<"AVOID", "LOW">>

(* analyze_trend(player_name, metric, line, opponent); opponent is        *)
(* NoneVal or Str(team).                                                  *)
analyze_trend(slf, player_name, metric, line, opponent) ==
  LET stats == calculate_averages(slf, player_name, metric, 10) IN
  IF stats.kind = "raise" THEN stats
  ELSE IF ~Truthy(stats) THEN Str("Insufficient data")
  ELSE
    LET last_5_avg == stats.last_5
        last_10_avg == stats.last_10
    IN
    IF ~Truthy(last_5_avg) \/ ~Truthy(last_10_avg)
    THEN Str("Insufficient data for trend analysis")
    ELSE
      LET trend_strength == TrendStrength(last_5_avg, last_10_avg, stats.std_dev)
          avg_vs_line == AvgVsLine(last_5_avg, line)
          opp_stats == IF Truthy(opponent)
                       THEN get_opponent_stats(slf, player_name, opponent.text, metric)
                       ELSE NoneVal
      IN
      IF opp_stats.kind = "raise" THEN opp_stats
      ELSE
        LET opponent_performance ==
              IF Truthy(opp_stats)
              THEN [kind |-> "dict",
                    average |-> round2(opp_stats.average),
                    games_played |-> opp_stats.games_played,
                    trend |-> opp_stats.trend,
                    last_performance |-> opp_stats.last_performance]
              ELSE NoneVal
            rc == MakeRecommendation(avg_vs_line, trend_strength,
                                     ConfidenceModifier(opponent_performance))
        IN  [kind |-> "dict",
             metric |-> metric,
             line |-> line,
             last_5_avg |-> round2(last_5_avg),
             last_10_avg |-> round2(last_10_avg),
             trend |-> IF StrengthAbove(trend_strength) THEN "UP"
                       ELSE IF StrengthBelow(trend_strength) THEN "DOWN"
                       ELSE "STABLE",
             recommendation |-> rc[1],
             confidence |-> rc[2],
             vs_opponent |-> opponent_performance]

---------------------------------------------------------------------------
(* What the queries do to the analyzer. player_stats is a plain dict and  *)
(* the queries only read it; opponent_stats is a                          *)
(* defaultdict(lambda: defaultdict(list)), on which d[k] inserts the      *)
(* default under a missing key k, while k in d inserts nothing.           *)

(* d after the subscript d[k] on a defaultdict with the given default. *)
defaultdict_getitem(d, k, default) ==
  IF k \in DOMAIN d THEN d ELSE d @@ (k :> default)

(* A variant of get_opponent_stats_self whose line 36 tests only          *)
(* opponent not in self.opponent_stats[player_name].                      *)
get_opponent_stats_self_Unguarded(slf, player_name, opponent, metric) ==
  LET os1 == defaultdict_getitem(slf.opponent_stats, player_name, EmptyDict) IN
  IF opponent \notin DOMAIN os1[player_name]
  THEN [slf EXCEPT !.opponent_stats = os1]
  ELSE slf

(* The analyzer after get_opponent_stats: line 36 subscripts              *)
(* opponent_stats by player_name only when the key is there (the or       *)
(* short-circuits), and line 39 subscripts both levels.                   *)
get_opponent_stats_self(slf, player_name, opponent, metric) ==
  IF player_name \notin DOMAIN slf.opponent_stats
  THEN slf
  ELSE
    LET os1 == defaultdict_getitem(slf.opponent_stats, player_name, EmptyDict) IN
    IF opponent \notin DOMAIN os1[player_name]
    THEN [slf EXCEPT !.opponent_stats = os1]
    ELSE
      LET os2 == defaultdict_getitem(os1, player_name, EmptyDict)
          inner == defaultdict_getitem(os2[player_name], opponent, <<>>)
      IN  [slf EXCEPT !.opponent_stats = [os2 EXCEPT ![player_name] = inner]]

(* The analyzer after suggest_line_with_matchup: line 91 is reached with  *)
(* a truthy base suggestion and a truthy opponent.                        *)
suggest_line_with_matchup_self(slf, player_name, metric, opponent, confidence_interval) ==
  LET base_suggestion == suggest_line(slf, player_name, metric, confidence_interval) IN
  IF base_suggestion.kind # "raise" /\ Truthy(base_suggestion) /\ Truthy(opponent)
  THEN get_opponent_stats_self(slf, player_name, opponent.text, metric)
  ELSE slf

(* The analyzer after analyze_trend: line 219 is reached with both        *)
(* averages truthy and a truthy opponent.                                 *)
analyze_trend_self(slf, player_name, metric, line, opponent) ==
  LET stats == calculate_averages(slf, player_name, metric, 10) IN
  IF /\ stats.kind = "dict"
     /\ Truthy(stats.last_5)
     /\ Truthy(stats.last_10)
     /\ Truthy(opponent)
  THEN get_opponent_stats_self(slf, player_name, opponent.text, metric)
  ELSE slf

---------------------------------------------------------------------------
(* The state machine. last is the last call made on the analyzer: the     *)
(* method, its arguments and its outcome.                                 *)

Init ==
  /\ player_stats = init_self.player_stats
  /\ opponent_stats = init_self.opponent_stats
  /\ last = [op |-> "__init__", ret |-> NoneVal]

(* The number of games stored, over all players. *)
TotalGames(ps) ==
  LET RECURSIVE Total(_)
      Total(S) == IF S = {} THEN 0
                  ELSE LET p == CHOOSE q \in S : TRUE
                       IN  Len(ps[p]) + Total(S \ {p})
  IN  Total(DOMAIN ps)

AddGameData(player_name, date, stats) ==
  LET after == add_game_data(self, player_name, date, stats) IN
  /\ player_stats' = after.player_stats
  /\ opponent_stats' = after.opponent_stats
  /\ last' = [op |-> "add_game_data", player |-> player_name, date |-> date,
              stats |-> stats, ret |-> NoneVal]

SuggestLine(player_name, metric, confidence_interval) ==
  /\ last' = [op |-> "suggest_line", player |-> player_name, metric |-> metric,
              confidence_interval |-> confidence_interval,
              ret |-> suggest_line(self, player_name, metric, confidence_interval)]
  /\ UNCHANGED <<player_stats, opponent_stats>>

SuggestLineWithMatchup(player_name, metric, opponent, confidence_interval) ==
  LET after == suggest_line_with_matchup_self(self, player_name, metric, opponent,
                                              confidence_interval)
  IN
  /\ last' = [op |-> "suggest_line_with_matchup", player |-> player_name,
              metric |-> metric, opponent |-> opponent,
              confidence_interval |-> confidence_interval,
              ret |-> suggest_line_with_matchup(self, player_name, metric, opponent,
                                                confidence_interval)]
  /\ player_stats' = after.player_stats
  /\ opponent_stats' = after.opponent_stats

GetOpponentStats(player_name, opponent, metric) ==
  LET after == get_opponent_stats_self(self, player_name, opponent, metric) IN
  /\ last' = [op |-> "get_opponent_stats", player |-> player_name,
              opponent |-> opponent, metric |-> metric,
              ret |-> get_opponent_stats(self, player_name, opponent, metric)]
  /\ player_stats' = after.player_stats
  /\ opponent_stats' = after.opponent_stats

AnalyzeTrend(player_name, metric, line, opponent) ==
  LET after == analyze_trend_self(self, player_name, metric, line, opponent) IN
  /\ last' = [op |-> "analyze_trend", player |-> player_name, metric |-> metric,
              line |-> line, opponent |-> opponent,
              ret |-> analyze_trend(self, player_name, metric, line, opponent)]
  /\ player_stats' = after.player_stats
  /\ opponent_stats' = after.opponent_stats

Next ==
  \/ \E p \in Players, g \in Games :
       /\ TotalGames(player_stats) < MaxGames
       /\ AddGameData(p, g[1], g[2])
  \/ \E p \in QueryPlayers, m \in Metrics, c \in ConfLevels : SuggestLine(p, m, c)
  \/ \E p \in QueryPlayers, m \in Metrics, o \in OpponentArgs, c \in ConfLevels :
       SuggestLineWithMatchup(p, m, o, c)
  \/ \E p \in QueryPlayers, o \in Opponents, m \in Metrics : GetOpponentStats(p, o, m)
  \/ \E p \in QueryPlayers, m \in Metrics, l \in Lines, o \in OpponentArgs :
       AnalyzeTrend(p, m, l, o)

Spec == Init /\ [][Next]_vars

(* The analyzer after n games dated 1..n with the same stats were added.  *)
RECURSIVE Seeded(_, _, _)
Seeded(player_name, n, stats) ==
  IF n = 0 THEN init_self
  ELSE add_game_data(Seeded(player_name, n - 1, stats), player_name, n, stats)

InitTrend ==
  \E s \in SeedStats :
    /\ player_stats = Seeded("p1", SeedLen, s).player_stats
    /\ opponent_stats = Seeded("p1", SeedLen, s).opponent_stats
    /\ last = [op |-> "add_game_data", player |-> "p1", date |-> SeedLen,
               stats |-> s, ret |-> NoneVal]

NextTrend ==
  \/ \E p \in TrendPlayers, g \in TrendGames :
       /\ TotalGames(player_stats) < SeedLen + MaxAdds
       /\ AddGameData(p, g[1], g[2])
  \/ \E p \in TrendPlayers, o \in Opponents, m \in Metrics : GetOpponentStats(p, o, m)
  \/ \E p \in TrendPlayers, m \in Metrics, l \in TrendLines, o \in TrendOpponentArgs :
       AnalyzeTrend(p, m, l, o)

SpecTrend == InitTrend /\ [][NextTrend]_vars

---------------------------------------------------------------------------
(* Notions the properties below are stated with. *)

History(p) == IF p \in DOMAIN player_stats THEN player_stats[p] ELSE <<>>

IndexOf(p, o) ==
  IF p \in DOMAIN opponent_stats /\ o \in DOMAIN opponent_stats[p]
  THEN opponent_stats[p][o]
  ELSE <<>>

IsQuery(op) ==
  op \in {"suggest_line", "suggest_line_with_matchup", "get_opponent_stats",
          "analyze_trend"}

(* The record of the latest date; among those, the first inserted. *)
MostRecent(h) ==
  LET i == CHOOSE j \in 1..Len(h) :
             /\ \A k \in 1..Len(h) : h[k]["date"] <= h[j]["date"]
             /\ \A k \in 1..(j - 1) : h[k]["date"] < h[j]["date"]
  IN  h[i]

RatLeq(a, b) == a.n * b.d <= b.n * a.d

(* C1: every query ends by returning a value; none ends in a raised       *)
(* exception.                                                             *)
C1_NoQueryRaises ==
  IsQuery(last.op) => last.ret.kind # "raise"

(* C2: for a player with at least 5 records that all carry the metric,    *)
(* suggest_line returns a LineSuggestion whose range has low <= high.     *)
C2_SuggestLineRange ==
  ( /\ last.op = "suggest_line"
    /\ Len(History(last.player)) >= 5
    /\ AllHave(History(last.player), last.metric) )
  => /\ last.ret.kind = "dict"
     /\ RatLeq(last.ret.range[1], last.ret.range[2])

(* C3: suggest_line returns NoData for an unknown player and for every    *)
(* player with fewer than 5 records, whatever the records contain.        *)
C3_FewRecordsNoData ==
  ( /\ last.op = "suggest_line"
    /\ Len(History(last.player)) < 5 )
  => last.ret.kind = "None"

(* C4: with at least 5 records, suggest_line returns NoData exactly when  *)
(* the metric is absent from the most recent record.                      *)
C4_NoDataIffAbsentFromMostRecent ==
  ( /\ last.op = "suggest_line"
    /\ Len(History(last.player)) >= 5 )
  => ( last.ret.kind = "None"
       <=> last.metric \notin DOMAIN MostRecent(History(last.player)) )

(* C5: analyze_trend with line = 0 on a player with at least 10 records   *)
(* surfaces a defined error: no exception, and no TrendRecommendation     *)
(* carrying OVER, UNDER or AVOID.                                         *)
C5_ZeroLineIsAnError ==
  ( /\ last.op = "analyze_trend"
    /\ last.line = 0
    /\ Len(History(last.player)) >= 10 )
  => /\ last.ret.kind # "raise"
     /\ ~( /\ last.ret.kind = "dict"
           /\ last.ret.recommendation \in {"OVER", "UNDER", "AVOID"} )

(* C6: analyze_trend returns the insufficient-data result for an unknown  *)
(* player and for every player with fewer than 10 records.                *)
C6_FewRecordsInsufficient ==
  ( /\ last.op = "analyze_trend"
    /\ Len(History(last.player)) < 10 )
  => /\ last.ret.kind = "str"
     /\ last.ret.text \in {"Insufficient data", "Insufficient data for trend analysis"}

---------------------------------------------------------------------------
(* The quantities of a returned TrendRecommendation r, read from r alone. *)
(* With integer metric values last_5_avg and last_10_avg are exact at two *)
(* decimals, so r holds the unrounded averages.                           *)

(* |avg_vs_line| <= 0.10, with avg_vs_line = (last_5_avg - line) / line;  *)
(* for line = 0 the quotient is infinite.                                 *)
WithinTenPercent(r) ==
  /\ r.line # 0
  /\ 10 * Abs(r.last_5_avg.n - r.line * r.last_5_avg.d)
       <= r.last_5_avg.d * Abs(r.line)

(* avg_vs_line > 0 *)
AboveLine(r) ==
  CASE r.line > 0 -> r.last_5_avg.n > r.line * r.last_5_avg.d
    [] r.line < 0 -> r.last_5_avg.n < r.line * r.last_5_avg.d
    [] OTHER -> r.last_5_avg.n > 0

(* The sign of trend_strength: that of last_5_avg - last_10_avg (0 when   *)
(* the window's standard deviation is 0, where the averages are equal).   *)
StrengthSign(r) == Sgn(RatSub(r.last_5_avg, r.last_10_avg).n)

(* The opponent trend the analyzer holds for the call's player and        *)
(* opponent: "none" without an opponent or without data for the pair.     *)
OpponentTrendOf(call) ==
  IF ~Truthy(call.opponent) THEN "none"
  ELSE LET os == get_opponent_stats(self, call.player, call.opponent.text, call.metric)
       IN  IF os.kind = "dict" THEN os.trend ELSE "none"

BaseConfidence(r) ==
  IF \/ r.recommendation = "OVER" /\ StrengthSign(r) > 0
     \/ r.recommendation = "UNDER" /\ StrengthSign(r) < 0
  THEN "HIGH" ELSE "MEDIUM"

IsTrendRecommendation == last.op = "analyze_trend" /\ last.ret.kind = "dict"

(* C7: in every TrendRecommendation, recommendation = AVOID iff           *)
(* |avg_vs_line| <= 0.10, and confidence = LOW iff recommendation =       *)
(* AVOID, whatever the opponent trend is.                                 *)
C7_AvoidIffWithinTenPercent ==
  IsTrendRecommendation =>
    /\ last.ret.recommendation = "AVOID" <=> WithinTenPercent(last.ret)
    /\ last.ret.confidence = "LOW" <=> last.ret.recommendation = "AVOID"
    /\ last.ret.recommendation \in {"OVER", "UNDER", "AVOID"}
    /\ last.ret.confidence \in {"LOW", "MEDIUM", "HIGH"}

(* C7 witness: an AVOID / LOW result on the boundary |avg_vs_line| = 0.10 *)
(* while the opponent trend is IMPROVING.                                 *)
C7_Witness ==
  /\ IsTrendRecommendation
  /\ last.ret.recommendation = "AVOID"
  /\ last.ret.confidence = "LOW"
  /\ 10 * Abs(last.ret.last_5_avg.n - last.ret.line * last.ret.last_5_avg.d)
       = last.ret.last_5_avg.d * Abs(last.ret.line)
  /\ OpponentTrendOf(last) = "IMPROVING"

(* C8: when |avg_vs_line| > 0.10 the recommendation is OVER if            *)
(* avg_vs_line > 0 and UNDER otherwise; the base confidence is HIGH when  *)
(* the sign of trend_strength agrees with the direction, else MEDIUM; the *)
(* final confidence is the base moved one step: MEDIUM to HIGH when the   *)
(* opponent trend is IMPROVING, HIGH to MEDIUM when it is DECLINING, and  *)
(* the base otherwise.                                                    *)
C8_DirectionAndConfidence ==
  (IsTrendRecommendation /\ ~WithinTenPercent(last.ret)) =>
    /\ last.ret.recommendation = IF AboveLine(last.ret) THEN "OVER" ELSE "UNDER"
    /\ last.ret.confidence =
         CASE OpponentTrendOf(last) = "IMPROVING" /\ BaseConfidence(last.ret) = "MEDIUM"
                -> "HIGH"
           [] OpponentTrendOf(last) = "DECLINING" /\ BaseConfidence(last.ret) = "HIGH"
                -> "MEDIUM"
           [] OTHER -> BaseConfidence(last.ret)

(* C8 witness: an UNDER whose base confidence HIGH is lowered to MEDIUM   *)
(* by a DECLINING opponent trend.                                         *)
C8_Witness ==
  /\ IsTrendRecommendation
  /\ last.ret.recommendation = "UNDER"
  /\ BaseConfidence(last.ret) = "HIGH"
  /\ OpponentTrendOf(last) = "DECLINING"
  /\ last.ret.confidence = "MEDIUM"

---------------------------------------------------------------------------
(* The record a step appended to h: at the end, everything before kept.   *)
IsPrefixOf(h, g) == Len(h) <= Len(g) /\ SubSeq(g, 1, Len(h)) = h

C9_Step ==
  /\ \A p \in DOMAIN player_stats :
       p \in DOMAIN player_stats' /\ IsPrefixOf(player_stats[p], player_stats'[p])
  /\ last'.op = "add_game_data" =>
       LET p == last'.player
           before == History(p)
       IN  /\ DOMAIN player_stats' = DOMAIN player_stats \cup {p}
           /\ Len(player_stats'[p]) = Len(before) + 1
           /\ IsPrefixOf(before, player_stats'[p])
           /\ LET rec == player_stats'[p][Len(before) + 1]
              IN  /\ DOMAIN rec = {"date"} \cup DOMAIN last'.stats
                  /\ rec["date"] = last'.date
                  /\ \A k \in DOMAIN last'.stats : rec[k] = last'.stats[k]
           /\ \A q \in DOMAIN player_stats' \ {p} : player_stats'[q] = player_stats[q]
  /\ last'.op # "add_game_data" => player_stats' = player_stats

(* C9: each add_game_data call lengthens that player's history by exactly *)
(* one record placed at the end (also when an equal record is already     *)
(* stored), creates the history on the first record, and leaves every     *)
(* stored record and every other player's history unchanged; no           *)
(* operation removes or reorders stored records.                          *)
C9_AppendOnly == [][C9_Step]_vars

(* C9 witness: a game was just added for a player whose history already   *)
(* ended with an identical record, while another player has a history.    *)
C9_Witness ==
  /\ last.op = "add_game_data"
  /\ LET h == History(last.player)
     IN  /\ Len(h) >= 3
         /\ h[Len(h)] = h[Len(h) - 1]
         /\ h[Len(h)]["date"] < h[1]["date"]
  /\ \E q \in DOMAIN player_stats : q # last.player /\ Len(player_stats[q]) >= 1

CarriesOpponent(g, o) == "opponent" \in DOMAIN g /\ g["opponent"] = o

OpponentGames(h, o) ==
  LET Test(g) == CarriesOpponent(g, o) IN SelectSeq(h, Test)

(* C10: for every player and opponent the index sequence of the pair is   *)
(* exactly the subsequence of the player's history whose records carry    *)
(* that opponent, in insertion order; the index has no other entry.       *)
C10_IndexIsSubsequence ==
  /\ \A p \in Players, o \in Opponents :
       IndexOf(p, o) = OpponentGames(History(p), o)
  /\ \A p \in DOMAIN opponent_stats :
       /\ p \in DOMAIN player_stats
       /\ \A o \in DOMAIN opponent_stats[p] :
            /\ o \in Opponents
            /\ opponent_stats[p][o] # <<>>

(* C10 witness: one player's history interleaves games against A, games   *)
(* against B and a game without opponent, with two games indexed under A. *)
C10_Witness ==
  \E p \in DOMAIN player_stats :
    /\ Len(IndexOf(p, "A")) >= 2
    /\ Len(IndexOf(p, "B")) >= 1
    /\ \E i \in 1..Len(player_stats[p]) : "opponent" \notin DOMAIN player_stats[p][i]
    /\ CarriesOpponent(player_stats[p][1], "A")
    /\ ~CarriesOpponent(player_stats[p][2], "A")
    /\ CarriesOpponent(player_stats[p][Len(player_stats[p])], "A")

---------------------------------------------------------------------------
(* C11: suggest_line, suggest_line_with_matchup, get_opponent_stats and   *)
(* analyze_trend leave the store as it was, whatever their outcome: the   *)
(* histories and the opponent index are the same before and after the     *)
(* call, key sets included, so a query about an unknown player or         *)
(* opponent creates no empty bucket.                                      *)
C11_Step ==
  IsQuery(last'.op) =>
    /\ player_stats' = player_stats
    /\ opponent_stats' = opponent_stats
    /\ DOMAIN opponent_stats' = DOMAIN opponent_stats
    /\ \A p \in DOMAIN opponent_stats :
         DOMAIN opponent_stats'[p] = DOMAIN opponent_stats[p]

C11_QueriesLeaveStore == [][C11_Step]_vars

(* C11 witness: get_opponent_stats was asked about a player who has a     *)
(* history but no indexed game, while the index holds another player's    *)
(* games; the player has no bucket afterwards.                            *)
C11_Witness ==
  /\ last.op = "get_opponent_stats"
  /\ last.ret.kind = "None"
  /\ opponent_stats # EmptyDict
  /\ last.player \notin DOMAIN opponent_stats
  /\ last.player \in DOMAIN player_stats

---------------------------------------------------------------------------
(* One add_game_data call and one query on the same player, run by two    *)
(* threads with no lock between them (the class has none). The threads    *)
(* interleave between the statements that touch the store:                *)
(*   add_game_data   line 18-19  creates the empty history,               *)
(*                   line 25     appends to the history,                  *)
(*                   line 30     subscripts the index (inserting the      *)
(*                               missing buckets), then appends;          *)
(*   suggest_line, get_opponent_stats                                     *)
(*                   read one structure: the outcome is that of the call  *)
(*                   on the store as it is when the list is sorted;       *)
(*   analyze_trend   line 199 reads the history (calculate_averages),     *)
(*                   line 219 reads the index (get_opponent_stats).       *)
(* Under SpecRace last holds the two calls in flight: the store both      *)
(* started on, the position of add_game_data, and the position, the       *)
(* locals and the outcome of the query.                                   *)

RaceSeedLens == {0, SeedLen + 2}

RaceQueries ==
  {[op |-> "suggest_line", player |-> p, metric |-> m, confidence_interval |-> c] :
     p \in TrendPlayers, m \in Metrics, c \in ConfLevels}
  \cup
  {[op |-> "get_opponent_stats", player |-> p, opponent |-> o, metric |-> m] :
     p \in TrendPlayers, o \in Opponents, m \in Metrics}
  \cup
  {[op |-> "analyze_trend", player |-> p, metric |-> m, line |-> l, opponent |-> o] :
     p \in TrendPlayers, m \in Metrics, l \in Lines, o \in TrendOpponentArgs}

InitRace ==
  \E n \in RaceSeedLens, s \in SeedStats, g \in TrendGames, q \in RaceQueries :
    LET before == Seeded("p1", n, s) IN
    /\ player_stats = before.player_stats
    /\ opponent_stats = before.opponent_stats
    /\ last = [op |-> "interleaved",
               before |-> before,
               add |-> [pc |-> "line18", player |-> "p1", date |-> g[1], stats |-> g[2]],
               query |-> [pc |-> "start", call |-> q,
                          player_stats |-> EmptyDict, ret |-> NoneVal]]

(* add_game_data, lines 18-19 *)
AddLine18 ==
  /\ last.add.pc = "line18"
  /\ player_stats' = IF last.add.player \in DOMAIN player_stats
                     THEN player_stats
                     ELSE player_stats @@ (last.add.player :> <<>>)
  /\ last' = [last EXCEPT !.add.pc = "line25"]
  /\ UNCHANGED opponent_stats

(* add_game_data, lines 21-28 *)
AddLine25 ==
  /\ last.add.pc = "line25"
  /\ player_stats' = [player_stats EXCEPT ![last.add.player] =
                        Append(@, game_data(last.add.date, last.add.stats))]
  /\ last' = [last EXCEPT !.add.pc = IF "opponent" \in DOMAIN last.add.stats
                                     THEN "line30" ELSE "done"]
  /\ UNCHANGED opponent_stats

(* add_game_data, line 30: self.opponent_stats[player_name][opponent] *)
AddLine30Subscript ==
  /\ last.add.pc = "line30"
  /\ LET os1 == defaultdict_getitem(opponent_stats, last.add.player, EmptyDict)
         inner == defaultdict_getitem(os1[last.add.player],
                                      last.add.stats["opponent"], <<>>)
     IN  opponent_stats' = [os1 EXCEPT ![last.add.player] = inner]
  /\ last' = [last EXCEPT !.add.pc = "line30_append"]
  /\ UNCHANGED player_stats

(* add_game_data, line 30: .append(game_data) *)
AddLine30Append ==
  /\ last.add.pc = "line30_append"
  /\ opponent_stats' =
       [opponent_stats EXCEPT ![last.add.player][last.add.stats["opponent"]] =
          Append(@, game_data(last.add.date, last.add.stats))]
  /\ last' = [last EXCEPT !.add.pc = "done"]
  /\ UNCHANGED player_stats

RaceSuggestLine ==
  /\ last.query.pc = "start"
  /\ last.query.call.op = "suggest_line"
  /\ last' = [last EXCEPT
                !.query.pc = "done",
                !.query.ret = suggest_line(self, last.query.call.player,
                                           last.query.call.metric,
                                           last.query.call.confidence_interval)]
  /\ UNCHANGED <<player_stats, opponent_stats>>

RaceGetOpponentStats ==
  /\ last.query.pc = "start"
  /\ last.query.call.op = "get_opponent_stats"
  /\ last' = [last EXCEPT
                !.query.pc = "done",
                !.query.ret = get_opponent_stats(self, last.query.call.player,
                                                 last.query.call.opponent,
                                                 last.query.call.metric)]
  /\ UNCHANGED <<player_stats, opponent_stats>>

(* analyze_trend, line 199: calculate_averages reads the history. *)
RaceAnalyzeTrendLine199 ==
  /\ last.query.pc = "start"
  /\ last.query.call.op = "analyze_trend"
  /\ last' = [last EXCEPT !.query.pc = "line219",
                          !.query.player_stats = player_stats]
  /\ UNCHANGED <<player_stats, opponent_stats>>

(* analyze_trend, lines 200-267: the averages are those of the history    *)
(* read at line 199; get_opponent_stats reads the index as it is now.     *)
RaceAnalyzeTrendLine219 ==
  /\ last.query.pc = "line219"
  /\ last' = [last EXCEPT
                !.query.pc = "done",
                !.query.ret = analyze_trend([player_stats |-> last.query.player_stats,
                                             opponent_stats |-> opponent_stats],
                                            last.query.call.player,
                                            last.query.call.metric,
                                            last.query.call.line,
                                            last.query.call.opponent)]
  /\ UNCHANGED <<player_stats, opponent_stats>>

NextRace ==
  \/ AddLine18
  \/ AddLine25
  \/ AddLine30Subscript
  \/ AddLine30Append
  \/ RaceSuggestLine
  \/ RaceGetOpponentStats
  \/ RaceAnalyzeTrendLine199
  \/ RaceAnalyzeTrendLine219

SpecRace == InitRace /\ [][NextRace]_vars

(* The store after the add_game_data call in flight, run alone. *)
RaceAfter ==
  add_game_data(last.before, last.add.player, last.add.date, last.add.stats)

(* The outcome of the query q run alone on the analyzer slf. *)
OutcomeOn(q, slf) ==
  CASE q.op = "suggest_line" ->
         suggest_line(slf, q.player, q.metric, q.confidence_interval)
    [] q.op = "get_opponent_stats" ->
         get_opponent_stats(slf, q.player, q.opponent, q.metric)
    [] q.op = "analyze_trend" ->
         analyze_trend(slf, q.player, q.metric, q.line, q.opponent)

QueryEnded == last.op = "interleaved" /\ last.query.pc = "done"

(* C12: a query interleaved with one add_game_data for the same player    *)
(* returns what it returns on the store before the append or what it      *)
(* returns on the store after it, never a mix of the two.                 *)
C12_BeforeOrAfter ==
  QueryEnded =>
    last.query.ret \in {OutcomeOn(last.query.call, last.before),
                        OutcomeOn(last.query.call, RaceAfter)}

(* C12 as the code has it: the interleaved add_game_data ends with the    *)
(* store of the call run alone; suggest_line and get_opponent_stats       *)
(* return their outcome on the store before or after the append;          *)
(* analyze_trend returns its outcome on the history of one of these two   *)
(* stores together with the opponent index of one of them, which may be   *)
(* the other one.                                                         *)
C12_PerStructure ==
  /\ (last.op = "interleaved" /\ last.add.pc = "done") => self = RaceAfter
  /\ QueryEnded =>
       \E h \in {last.before, RaceAfter}, i \in {last.before, RaceAfter} :
         /\ last.query.ret =
              OutcomeOn(last.query.call, [player_stats |-> h.player_stats,
                                          opponent_stats |-> i.opponent_stats])
         /\ last.query.call.op # "analyze_trend" => h = i

(* C12 witness: analyze_trend with an opponent read the history after     *)
(* line 25 had appended the game and the index before line 30 did: its    *)
(* outcome has the averages of the store after the append and the         *)
(* opponent figures of the store before it, and is the outcome on         *)
(* neither store.                                                         *)
C12_Witness ==
  /\ QueryEnded
  /\ last.query.call.op = "analyze_trend"
  /\ last.query.ret.kind = "dict"
  /\ last.query.ret.vs_opponent.kind = "dict"
  /\ last.query.ret =
       OutcomeOn(last.query.call, [player_stats |-> RaceAfter.player_stats,
                                   opponent_stats |-> last.before.opponent_stats])
  /\ last.query.ret # OutcomeOn(last.query.call, last.before)
  /\ last.query.ret # OutcomeOn(last.query.call, RaceAfter)

---------------------------------------------------------------------------
(* C13: a suggest_line call and the same call made again with no          *)
(* add_game_data in between have the same outcome: the same               *)
(* LineSuggestion field by field, or NoData both times.                   *)
C13_RepeatedCallAgrees ==
  last.op = "suggest_line" =>
    LET again == suggest_line(self, last.player, last.metric,
                              last.confidence_interval)
    IN  \/ last.ret.kind = "dict" /\ again = last.ret
        \/ last.ret.kind = "None" /\ again.kind = "None"

(* The metric over the 20 most recent records of h, most recent first. *)
RecentValues(h, metric) == ValuesOf(Take(sorted_by_date_desc(h), 20), metric)

(* C14: for a player with at least 5 records (all carrying the metric),   *)
(* suggest_line's suggested_line is mean + 0.2 * (last_5_avg - mean)      *)
(* rounded to one decimal, mean being the average over the 20 most recent *)
(* records and last_5_avg the average over the 5 most recent.             *)
C14_SuggestedLineFormula ==
  ( /\ last.op = "suggest_line"
    /\ Len(History(last.player)) >= 5
    /\ AllHave(History(last.player), last.metric) )
  => /\ last.ret.kind = "dict"
     /\ LET recent_values == RecentValues(History(last.player), last.metric)
            mean == np_mean(recent_values)
            last_5_avg == np_mean(Take(recent_values, 5))
        IN  last.ret.suggested_line =
              round1(RatAdd(mean, RatScale(RatSub(last_5_avg, mean), 2, 10)))

(* C15: get_opponent_stats returns NoData when the player is unknown,     *)
(* when the pair has no indexed game, and when some record indexed for    *)
(* the pair lacks the metric, whichever record it is; in every other case *)
(* it returns an OpponentSummary.                                         *)
C15_NoDataIffSomeRecordLacksMetric ==
  last.op = "get_opponent_stats" =>
    LET games == IndexOf(last.player, last.opponent) IN
    last.ret.kind = IF games = <<>> \/ ~AllHave(games, last.metric)
                    THEN "None" ELSE "dict"

---------------------------------------------------------------------------
IsOpponentSummary == last.op = "get_opponent_stats" /\ last.ret.kind = "dict"

(* C16: the trend of an OpponentSummary is INSUFFICIENT_DATA when the     *)
(* pair has exactly 1 game; with 2 or more games it is IMPROVING when the *)
(* latest-dated value is above 1.10 times the mean of all the other       *)
(* values, DECLINING when it is below 0.90 times that mean, and STABLE    *)
(* otherwise.                                                             *)
C16_OpponentTrend ==
  IsOpponentSummary =>
    LET games == IndexOf(last.player, last.opponent)
        n == Len(games)
        latest == MostRecent(games)[last.metric]
        others == SumSeq(ValuesOf(games, last.metric)) - latest
    IN  last.ret.trend =
          IF n = 1 THEN "INSUFFICIENT_DATA"
          ELSE IF 10 * latest * (n - 1) > 11 * others THEN "IMPROVING"
          ELSE IF 10 * latest * (n - 1) < 9 * others THEN "DECLINING"
          ELSE "STABLE"

(* C16 witness: a pair with exactly two games, the latest-dated value 10  *)
(* and the other value 30, reported DECLINING.                            *)
C16_Witness ==
  /\ IsOpponentSummary
  /\ last.ret.games_played = 2
  /\ last.ret.last_performance = 10
  /\ last.ret.max = 30
  /\ last.ret.trend = "DECLINING"

(* The number of occurrences of x in the sequence s. *)
Count(s, x) == Cardinality({i \in 1..Len(s) : s[i] = x})

(* C17: an OpponentSummary describes exactly the records indexed for the  *)
(* pair: games_played is their number, at least 1; last_matchup and       *)
(* last_performance are the date and the metric of a latest-dated record; *)
(* recent_games holds min(5, games_played) of the records, the            *)
(* latest-dated ones, in descending date order; and                       *)
(* min <= last_performance <= max.                                        *)
C17_SummaryDescribesIndex ==
  IsOpponentSummary =>
    LET games == IndexOf(last.player, last.opponent)
        r == last.ret
        recent == r.recent_games
    IN  /\ r.games_played = Len(games)
        /\ r.games_played >= 1
        /\ \A i \in 1..Len(games) : games[i]["date"] <= r.last_matchup
        /\ \E i \in 1..Len(games) :
             /\ games[i]["date"] = r.last_matchup
             /\ games[i][last.metric] = r.last_performance
        /\ Len(recent) = MinOf(5, r.games_played)
        /\ \A i \in 1..Len(recent), j \in 1..Len(recent) :
             i < j => recent[i]["date"] >= recent[j]["date"]
        /\ recent[1]["date"] = r.last_matchup
        /\ \A i \in 1..Len(recent) : Count(recent, recent[i]) <= Count(games, recent[i])
        /\ \A i \in 1..Len(games) :
             Count(recent, games[i]) < Count(games, games[i])
               => games[i]["date"] <= recent[Len(recent)]["date"]
        /\ r.min <= r.last_performance
        /\ r.last_performance <= r.max

(* C17 witness: a pair with more than 5 games whose latest-dated record   *)
(* was inserted last and holds the minimum, with an older record left out *)
(* of recent_games.                                                       *)
C17_Witness ==
  /\ IsOpponentSummary
  /\ last.ret.games_played > 5
  /\ Len(last.ret.recent_games) = 5
  /\ LET games == IndexOf(last.player, last.opponent)
     IN  /\ last.ret.recent_games[1] = games[Len(games)]
         /\ Count(last.ret.recent_games, games[1]) = 0
  /\ last.ret.last_performance = last.ret.min
  /\ last.ret.min < last.ret.max

---------------------------------------------------------------------------
IsMatchupCall == last.op = "suggest_line_with_matchup"

(* The records indexed for the player and the opponent of the call. *)
MatchupGames ==
  IF Truthy(last.opponent) THEN IndexOf(last.player, last.opponent.text) ELSE <<>>

(* C18: suggest_line_with_matchup returns NoData whenever suggest_line    *)
(* does, and returns the result of suggest_line itself, nothing added,    *)
(* when no opponent is given or the pair has fewer than 2 indexed games.  *)
C18_MatchupFallsBackToBase ==
  IsMatchupCall =>
    LET base == suggest_line(self, last.player, last.metric,
                             last.confidence_interval)
    IN  /\ base.kind = "None" => last.ret.kind = "None"
        /\ (~Truthy(last.opponent) \/ Len(MatchupGames) < 2) =>
             /\ last.ret.kind \in {"None", "dict"}
             /\ last.ret = base

RatEq(a, b) == a.n * b.d = b.n * a.d

(* C19: when the pair has at least 2 indexed games (and the player at     *)
(* least 5 records, all carrying the metric), suggest_line_with_matchup   *)
(* reports opponent_factor = (opponent average - general mean) * 0.3      *)
(* rounded to one decimal and suggested_line = base suggested_line +      *)
(* opponent_factor, so suggested_line - opponent_factor is the            *)
(* suggested_line of suggest_line on the same store.                      *)
C19_OpponentAdjustment ==
  ( /\ IsMatchupCall
    /\ Len(MatchupGames) >= 2
    /\ AllHave(MatchupGames, last.metric)
    /\ Len(History(last.player)) >= 5
    /\ AllHave(History(last.player), last.metric) )
  => /\ last.ret.kind = "dict"
     /\ "opponent_factor" \in DOMAIN last.ret
     /\ LET opponent_avg == np_mean(ValuesOf(MatchupGames, last.metric))
            general_avg == np_mean(RecentValues(History(last.player), last.metric))
            base == suggest_line(self, last.player, last.metric,
                                 last.confidence_interval)
        IN  /\ RatEq(last.ret.opponent_factor,
                     round1(RatScale(RatSub(opponent_avg, general_avg), 3, 10)))
            /\ RatEq(RatSub(last.ret.suggested_line, last.ret.opponent_factor),
                     base.suggested_line)

(* The confidence levels a call's range is compared with, in percent. *)
HigherConfLevels == {90, 95}

(* C20: for a player with at least 5 records (all carrying the metric),   *)
(* the range suggest_line returns at a higher confidence level on the     *)
(* same store is at least as wide as the range of the call.               *)
C20_RangeWidensWithConfidence ==
  ( /\ last.op = "suggest_line"
    /\ Len(History(last.player)) >= 5
    /\ AllHave(History(last.player), last.metric) )
  => \A c2 \in HigherConfLevels :
       last.confidence_interval <= c2 =>
         LET wider == suggest_line(self, last.player, last.metric, c2) IN
         /\ last.ret.kind = "dict"
         /\ wider.kind = "dict"
         /\ RatLeq(RatSub(last.ret.range[2], last.ret.range[1]),
                   RatSub(wider.range[2], wider.range[1]))

---------------------------------------------------------------------------
(* SpecForm: the recent form of lines 182-192 on the samples suggest_line *)
(* draws at lines 161-162. The player's log holds five recent games       *)
(* (dates 1..5) with values of FormValues and up to MaxOlder older games  *)
(* (date 0): first some with the low value, then some with the high one.  *)

MaxOlder == 15
FormValues == {0, 30}

(* The analyzer after the games of the list were added in order. *)
RECURSIVE AddAll(_, _, _)
AddAll(slf, player_name, games) ==
  IF games = <<>> THEN slf
  ELSE add_game_data(AddAll(slf, player_name, SubSeq(games, 1, Len(games) - 1)),
                     player_name, games[Len(games)][1], games[Len(games)][2])

FormGames(recent, a, b) ==
  [i \in 1..(a + b) |-> <<0, [points |-> IF i <= a THEN 0 ELSE 30]>>]
  \o [i \in 1..5 |-> <<i, [points |-> recent[i]]>>]

InitForm ==
  \E recent \in [1..5 -> FormValues], a \in 0..MaxOlder, b \in 0..MaxOlder :
    /\ a + b <= MaxOlder
    /\ LET slf == AddAll(init_self, "p1", FormGames(recent, a, b)) IN
       /\ player_stats = slf.player_stats
       /\ opponent_stats = slf.opponent_stats
    /\ last = [op |-> "add_game_data", player |-> "p1", date |-> 5,
               stats |-> [points |-> recent[5]], ret |-> NoneVal]

(* Lines 161-162 and 170-192 of suggest_line on the player's log: the     *)
(* recent_form field of the dict of line 188.                             *)
RecentForm(player_name, metric) ==
  /\ player_name \in DOMAIN player_stats
  /\ LET sorted_stats == sorted_by_date_desc(player_stats[player_name])
         recent_values == ValuesOf(Take(sorted_stats, 20), metric)
     IN  last' = [op |-> "recent_form", player |-> player_name, metric |-> metric,
                  ret |-> Str(recent_form(recent_values))]
  /\ UNCHANGED <<player_stats, opponent_stats>>

NextForm == \E p \in TrendPlayers, m \in Metrics : RecentForm(p, m)

SpecForm == InitForm /\ [][NextForm]_vars

---------------------------------------------------------------------------
(* C22: for a player with at least 10 records that all carry the metric   *)
(* and a nonzero line, analyze_trend returns a TrendRecommendation, also  *)
(* when the average of the 5 or of the 10 most recent values is exactly   *)
(* 0; the insufficient-data result is kept for fewer than 10 records and  *)
(* for a missing metric.                                                  *)
C22_ZeroAverageStillRecommends ==
  ( /\ last.op = "analyze_trend"
    /\ last.line # 0
    /\ Len(History(last.player)) >= 10
    /\ AllHave(History(last.player), last.metric) )
  => last.ret.kind = "dict"

---------------------------------------------------------------------------
(* SpecOrder: player p1 starts with a log of SeedLen games dated          *)
(* 1..SeedLen against A, and at most MaxAdds games are added whose dates  *)
(* are already in the log (SeedLen - 4, the fifth latest date) or older   *)
(* than the log (0), with different values, so that records of equal date *)
(* lie on both sides of the 5-record and 10-record windows.               *)

OrderSeed == [points |-> 20, opponent |-> "A"]
OrderGames ==
  { <<SeedLen - 4, [points |-> 30, opponent |-> "A"]>>,
    <<SeedLen - 4, [points |-> 10, opponent |-> "A"]>>,
    <<0, [points |-> 30, opponent |-> "A"]>>,
    <<0, [points |-> 10, opponent |-> "A"]>> }

InitOrder ==
  /\ player_stats = Seeded("p1", SeedLen, OrderSeed).player_stats
  /\ opponent_stats = Seeded("p1", SeedLen, OrderSeed).opponent_stats
  /\ last = [op |-> "add_game_data", player |-> "p1", date |-> SeedLen,
             stats |-> OrderSeed, ret |-> NoneVal]

NextOrder ==
  \/ \E p \in TrendPlayers, g \in OrderGames :
       /\ TotalGames(player_stats) < SeedLen + MaxAdds
       /\ AddGameData(p, g[1], g[2])
  \/ \E p \in TrendPlayers, o \in Opponents, m \in Metrics : GetOpponentStats(p, o, m)
  \/ \E p \in TrendPlayers, m \in Metrics, l \in Lines, o \in OpponentArgs :
       AnalyzeTrend(p, m, l, o)

SpecOrder == InitOrder /\ [][NextOrder]_vars

(* The place of h[i] when h is ordered by date descending, records of     *)
(* equal date in insertion order.                                         *)
Rank(h, i) ==
  1 + Cardinality({j \in 1..Len(h) :
                     \/ h[j]["date"] > h[i]["date"]
                     \/ h[j]["date"] = h[i]["date"] /\ j < i})

Ordered(h) == [k \in 1..Len(h) |-> h[CHOOSE i \in 1..Len(h) : Rank(h, i) = k]]

---------------------------------------------------------------------------
(* The metric of the k latest-dated records of h, latest first, found by  *)
(* taking the most recent record out of h k times.                        *)
MostRecentIndex(h) ==
  CHOOSE j \in 1..Len(h) :
    /\ \A k \in 1..Len(h) : h[k]["date"] <= h[j]["date"]
    /\ \A k \in 1..(j - 1) : h[k]["date"] < h[j]["date"]

Without(h, i) == SubSeq(h, 1, i - 1) \o SubSeq(h, i + 1, Len(h))

RECURSIVE LatestValues(_, _, _)
LatestValues(h, metric, k) ==
  IF k = 0 \/ h = <<>> THEN <<>>
  ELSE LET i == MostRecentIndex(h)
       IN  <<h[i][metric]>> \o LatestValues(Without(h, i), metric, k - 1)

(* C24: in every TrendRecommendation last_10_avg is the mean of the       *)
(* metric over exactly the 10 latest-dated records and last_5_avg the     *)
(* mean over the 5 latest-dated, whatever the insertion order and however *)
(* many older records there are.                                          *)
C24_AveragesOverLatest ==
  IsTrendRecommendation =>
    LET h == History(last.player)
        ten == LatestValues(h, last.metric, 10)
        five == LatestValues(h, last.metric, 5)
    IN  /\ Len(ten) = 10
        /\ Len(five) = 5
        /\ RatEq(last.ret.last_10_avg, Num(SumSeq(ten), 10))
        /\ RatEq(last.ret.last_5_avg, Num(SumSeq(five), 5))

(* C24 witness: a log of more than 10 records in which a game older than  *)
(* all others was inserted before a game newer than all others; the older *)
(* game is outside the window and the two averages differ.                *)
C24_Witness ==
  /\ IsTrendRecommendation
  /\ LET h == History(last.player)
     IN  /\ Len(h) > 10
         /\ \E i \in 1..Len(h), j \in 1..Len(h) :
              /\ i < j
              /\ \A k \in 1..Len(h) : h[i]["date"] <= h[k]["date"]
              /\ \A k \in 1..Len(h) : h[k]["date"] <= h[j]["date"]
              /\ h[i]["date"] < h[j]["date"]
  /\ ~RatEq(last.ret.last_5_avg, last.ret.last_10_avg)

---------------------------------------------------------------------------
(* 2 * (sum of the 5 latest) - (sum of the 10 latest) is                  *)
(* 10 * (last_5_avg - last_10_avg), and 10 * (sum of squares) - sum^2 is  *)
(* 100 * std10^2: trend_strength > 0.2 is diff > 0 and                    *)
(* 25 * diff^2 > 100 * std10^2 in these units.                            *)
TenTimesDiff(h, metric) ==
  2 * SumSeq(LatestValues(h, metric, 5)) - SumSeq(LatestValues(h, metric, 10))

HundredTimesVar(h, metric) ==
  LET ten == LatestValues(h, metric, 10)
  IN  10 * SumSq(ten) - SumSeq(ten) * SumSeq(ten)

(* C25: the trend of a TrendRecommendation is UP when                     *)
(* (last_5_avg - last_10_avg) / std10 > 0.2, DOWN when it is < -0.2 and   *)
(* STABLE otherwise, the quotient being taken as 0 when std10 = 0.        *)
C25_TrendLabel ==
  IsTrendRecommendation =>
    LET d == TenTimesDiff(History(last.player), last.metric)
        v == HundredTimesVar(History(last.player), last.metric)
    IN  last.ret.trend =
          IF v = 0 THEN "STABLE"
          ELSE IF d > 0 /\ 25 * d * d > v THEN "UP"
          ELSE IF d < 0 /\ 25 * d * d > v THEN "DOWN"
          ELSE "STABLE"

(* C25 witness: last_5_avg above last_10_avg with a trend_strength of at  *)
(* most 0.2, reported STABLE.                                             *)
C25_Witness ==
  /\ IsTrendRecommendation
  /\ last.ret.trend = "STABLE"
  /\ TenTimesDiff(History(last.player), last.metric) > 0
  /\ HundredTimesVar(History(last.player), last.metric) > 0

---------------------------------------------------------------------------
IsHighWithoutOpponent ==
  /\ IsTrendRecommendation
  /\ ~Truthy(last.opponent)
  /\ last.ret.confidence = "HIGH"

(* C26: without an opponent the trend label agrees with a HIGH            *)
(* confidence: every OVER with HIGH confidence reports trend UP and every *)
(* UNDER with HIGH confidence reports trend DOWN.                         *)
C26_HighAgreesWithLabel ==
  IsHighWithoutOpponent =>
    /\ last.ret.recommendation = "OVER" => last.ret.trend = "UP"
    /\ last.ret.recommendation = "UNDER" => last.ret.trend = "DOWN"

(* C26 as the code has it: without an opponent a HIGH confidence comes    *)
(* with OVER and last_5_avg > last_10_avg, or with UNDER and              *)
(* last_5_avg < last_10_avg (trend_strength has the sign of the           *)
(* direction); the label is then UP, respectively DOWN, when              *)
(* |trend_strength| > 0.2 and STABLE when it is at most 0.2, and never    *)
(* the opposite one.                                                      *)
C26_HighAgreesWithSign ==
  IsHighWithoutOpponent =>
    LET d == TenTimesDiff(History(last.player), last.metric)
        v == HundredTimesVar(History(last.player), last.metric)
    IN  /\ last.ret.recommendation \in {"OVER", "UNDER"}
        /\ last.ret.recommendation = "OVER" =>
             /\ d > 0
             /\ last.ret.trend = IF 25 * d * d > v THEN "UP" ELSE "STABLE"
        /\ last.ret.recommendation = "UNDER" =>
             /\ d < 0
             /\ last.ret.trend = IF 25 * d * d > v THEN "DOWN" ELSE "STABLE"

(* C26 witness: an OVER with HIGH confidence and trend STABLE, without an *)
(* opponent.                                                              *)
C26_Witness ==
  /\ IsHighWithoutOpponent
  /\ last.ret.recommendation = "OVER"
  /\ last.ret.trend = "STABLE"

---------------------------------------------------------------------------
(* C27: the range suggest_line returns is centered on the unadjusted mean *)
(* of the sample: low + high is 2 * mean up to the rounding of the three  *)
(* figures to one decimal (at most 0.2), whatever the form adjustment in  *)
(* suggested_line is.                                                     *)
C27_RangeCenteredOnMean ==
  ( /\ last.op = "suggest_line"
    /\ Len(History(last.player)) >= 5
    /\ AllHave(History(last.player), last.metric) )
  => /\ last.ret.kind = "dict"
     /\ LET dev == RatSub(RatAdd(last.ret.range[1], last.ret.range[2]),
                          RatScale(last.ret.mean, 2, 1))
        IN  5 * Abs(dev.n) <= dev.d

(* C28: when suggest_line_with_matchup applies an opponent adjustment     *)
(* (the pair has at least 2 indexed games), its result has the keys of    *)
(* the suggest_line result plus opponent_factor and vs_opponent; range,   *)
(* confidence, recent_form, mean and last_5_avg are those of suggest_line *)
(* on the same store, and vs_opponent.games_played and vs_opponent.trend  *)
(* those of get_opponent_stats for the pair.                              *)
C28_AdjustmentKeepsBaseFields ==
  ( /\ IsMatchupCall
    /\ Len(MatchupGames) >= 2
    /\ AllHave(MatchupGames, last.metric)
    /\ Len(History(last.player)) >= 5
    /\ AllHave(History(last.player), last.metric) )
  => LET base == suggest_line(self, last.player, last.metric,
                              last.confidence_interval)
         summary == get_opponent_stats(self, last.player, last.opponent.text,
                                       last.metric)
     IN  /\ last.ret.kind = "dict"
         /\ base.kind = "dict"
         /\ DOMAIN last.ret = DOMAIN base \cup {"opponent_factor", "vs_opponent"}
         /\ \A k \in {"range", "confidence", "recent_form", "mean", "last_5_avg"} :
              last.ret[k] = base[k]
         /\ last.ret.vs_opponent.games_played = summary.games_played
         /\ last.ret.vs_opponent.trend = summary.trend

---------------------------------------------------------------------------
(* _safe_request(url, retries, delay) of SportsScraper                    *)
(* (src/data_scraper.py) and of InjuryTracker (src/injury_tracker.py);    *)
(* the two methods differ by one print. Under SpecRequest last holds the  *)
(* call in flight: its arguments, the loop index i, the outcomes of the   *)
(* GET attempts made so far (a response with its status code, or a raised *)
(* exception), the seconds slept, and the outcome once the call has       *)
(* returned. What session.get yields is the server's choice.              *)

MaxRetries == 3
Delays == {0, 1}
OtherStatuses == {500, 503}

Response(status_code) == [kind |-> "response", status_code |-> status_code]

InitRequest ==
  \E r \in 0..MaxRetries, d \in Delays :
    /\ player_stats = init_self.player_stats
    /\ opponent_stats = init_self.opponent_stats
    /\ last = [op |-> "_safe_request", retries |-> r, delay |-> d, i |-> 0,
               pc |-> "loop", log |-> <<>>, slept |-> 0, ret |-> NoneVal]

InLoop == last.op = "_safe_request" /\ last.pc = "loop" /\ last.i < last.retries

(* A variant of Get404 that goes on with the next attempt. *)
Get404_Continues ==
  /\ InLoop
  /\ last' = [last EXCEPT !.log = Append(@, Response(404)),
                          !.i = @ + 1]
  /\ UNCHANGED <<player_stats, opponent_stats>>

(* status 200: sleep(delay), return response *)
Get200 ==
  /\ InLoop
  /\ last' = [last EXCEPT !.log = Append(@, Response(200)),
                          !.slept = @ + last.delay,
                          !.ret = Response(200),
                          !.pc = "done"]
  /\ UNCHANGED <<player_stats, opponent_stats>>

(* status 404: return None *)
Get404 ==
  /\ InLoop
  /\ last' = [last EXCEPT !.log = Append(@, Response(404)),
                          !.ret = NoneVal,
                          !.pc = "done"]
  /\ UNCHANGED <<player_stats, opponent_stats>>

(* any other status: neither branch is taken, the loop goes on *)
GetOtherStatus(status_code) ==
  /\ InLoop
  /\ last' = [last EXCEPT !.log = Append(@, Response(status_code)),
                          !.i = @ + 1]
  /\ UNCHANGED <<player_stats, opponent_stats>>

(* session.get raises: return None on the last attempt, else              *)
(* sleep(delay * (i + 1)) and go on                                       *)
GetRaises ==
  /\ InLoop
  /\ last' = IF last.i = last.retries - 1
             THEN [last EXCEPT !.log = Append(@, Raise("Exception")),
                               !.ret = NoneVal,
                               !.pc = "done"]
             ELSE [last EXCEPT !.log = Append(@, Raise("Exception")),
                               !.slept = @ + last.delay * (last.i + 1),
                               !.i = @ + 1]
  /\ UNCHANGED <<player_stats, opponent_stats>>

(* range(retries) is exhausted: return None *)
LoopEnds ==
  /\ last.op = "_safe_request"
  /\ last.pc = "loop"
  /\ last.i >= last.retries
  /\ last' = [last EXCEPT !.ret = NoneVal, !.pc = "done"]
  /\ UNCHANGED <<player_stats, opponent_stats>>

NextRequest ==
  \/ Get200
  \/ Get404
  \/ \E c \in OtherStatuses : GetOtherStatus(c)
  \/ GetRaises
  \/ LoopEnds

(* The thread that runs the call keeps running: session.get and           *)
(* time.sleep come back.                                                  *)
SpecRequest == InitRequest /\ [][NextRequest]_vars /\ WF_vars(NextRequest)

IsStatus(x, status_code) == x.kind = "response" /\ x.status_code = status_code

EndsAttempts(x) == IsStatus(x, 200) \/ IsStatus(x, 404)

C29_Safe ==
  last.op = "_safe_request" =>
    LET log == last.log
        n == Len(last.log)
    IN  /\ n <= last.retries
        /\ \A k \in 1..(n - 1) : ~EndsAttempts(log[k])
        /\ last.pc = "loop" =>
             /\ \A k \in 1..n : ~EndsAttempts(log[k])
             /\ last.ret = NoneVal
        /\ last.pc = "done" =>
             /\ last.ret \in {NoneVal, Response(200)}
             /\ last.ret = Response(200) <=> (n >= 1 /\ IsStatus(log[n], 200))
             /\ (n >= 1 /\ IsStatus(log[n], 404)) => last.ret = NoneVal
             /\ (n = 0 \/ ~EndsAttempts(log[n])) => n = last.retries

(* C29: _safe_request ends after at most retries GET attempts: it returns *)
(* the response of the first attempt with status 200, returns None at the *)
(* first status 404 without a further attempt, returns None once retries  *)
(* attempts ended in an exception or another status, and returns a        *)
(* response only when an attempt had status 200.                          *)
C29_SafeRequestTerminates ==
  /\ []C29_Safe
  /\ <>(last.op = "_safe_request" /\ last.pc = "done")

(* C29 witness: the call with retries = 3 returned the response of its    *)
(* third attempt, after one attempt that raised and one with status 500.  *)
C29_Witness ==
  /\ last.op = "_safe_request"
  /\ last.pc = "done"
  /\ last.retries = 3
  /\ Len(last.log) = 3
  /\ last.log[1].kind = "raise"
  /\ IsStatus(last.log[2], 500)
  /\ last.ret = Response(200)
  /\ last.slept = 2 * last.delay

====
